---------------------------- MODULE Spec2Model ----------------------------
(***************************************************************************)
(* Day-trade buying-power engine (calculateBuyingPower) as a state         *)
(* machine.  One invocation is: Call (start-of-day state, sorted copy of   *)
(* the trade list), one ProcessTrade step per trade of the replay, Return  *)
(* (final outputs).  The repository holds four variants of the engine:     *)
(*   "custom"  src/services/engine.ts 32-222  (custom house rules)         *)
(*   "ledger"  src/services/engine.ts 246-468 (call-avoidance cash ledger) *)
(*   "avoid"   src/unnamed/part_007           (call-avoidance, penalty)    *)
(*   "basic"   src/unnamed/part_006           (maintenance only)           *)
(* Amounts are exact rationals [n, d] (d > 0, lowest terms): the IEEE      *)
(* rounding of the JavaScript numbers is not modelled.                     *)
(* The App component of src/App.tsx 123-247 (state, handlers, effects) is  *)
(* the caller: its handlers are the actions of SpecApp, with the engine's  *)
(* invocations taken as one step each.                                     *)
(***************************************************************************)
EXTENDS Integers, Sequences, FiniteSets, TLC

VARIABLES
    profile,        \* which input universe the calls draw from (fixed by Init)
    engine,         \* which variant of calculateBuyingPower is the build's
    callsLeft,      \* invocations still allowed
    pc,             \* "idle" | "loop" | "done"
    settings,       \* argument: AccountSettings
    trades,         \* argument: Trade[]
    sortedTrades,   \* local: the replay sequence
    idx,            \* local: number of trades of sortedTrades processed
    st,             \* locals of the invocation (trackers, positions, logs)
    result,         \* the CalculationResult returned by the last invocation
    returned,       \* history: <<settings, trades, result>> of finished calls
    args,           \* history: the arguments as the caller passed them
    app,            \* state of the App component (useState values)
    requests,       \* persistence requests issued by App, in order
    now,            \* Date.now(), in handler events
    inflight,       \* indices of the requests the remote store has not served
    remote          \* rows of the remote trades table

engineVars == <<callsLeft, pc, settings, trades, sortedTrades, idx, st,
                result, returned, args>>
appVars == <<app, requests, now, inflight, remote>>
vars == <<profile, engine, callsLeft, pc, settings, trades, sortedTrades,
          idx, st, result, returned, args, app, requests, now, inflight,
          remote>>

---------------------------------------------------------------------------
(* Bounds of the model *)
MaxReplay == 2     \* longest log of the replay universe
MaxTrades == 3     \* longest log of the sorting universe
MaxTs == 3         \* timestamps of the sorting universe
MaxCalls == 2      \* invocations in a row
MaxEvents == 3     \* handler events of the App component
MaxPos == 3        \* longest log of the position universe

---------------------------------------------------------------------------
(* Exact rational arithmetic standing in for JavaScript numbers *)
Abs(x) == IF x < 0 THEN -x ELSE x

RECURSIVE GCD(_, _)
GCD(a, b) == IF b = 0 THEN a ELSE GCD(b, a % b)

Norm(n, d) ==
    LET s == IF d < 0 THEN -1 ELSE 1
        g == GCD(Abs(n), Abs(d))
    IN  [n |-> (s * n) \div g, d |-> (s * d) \div g]

Num(k) == [n |-> k, d |-> 1]
Zero == Num(0)
Pct(k) == Norm(k, 100)

RAdd(x, y) == Norm(x.n * y.d + y.n * x.d, x.d * y.d)
RSub(x, y) == Norm(x.n * y.d - y.n * x.d, x.d * y.d)
RMul(x, y) == Norm(x.n * y.n, x.d * y.d)
RDiv(x, y) == Norm(x.n * y.d, x.d * y.n)
RLt(x, y) == x.n * y.d < y.n * x.d
RLe(x, y) == x.n * y.d <= y.n * x.d
RMax(x, y) == IF RLt(x, y) THEN y ELSE x
RMin(x, y) == IF RLt(y, x) THEN y ELSE x
RAbs(x) == [n |-> Abs(x.n), d |-> x.d]

---------------------------------------------------------------------------
(* types.ts *)
GENERIC_FINRA == "Generic (FINRA Rule 4210)"
SCHWAB_TOS == "Schwab / thinkorswim"

STOCK == "Stock"
OPTION == "Option"
ETF_LEVERAGED == "ETF (Leveraged)"

BUY == "Buy"
SELL == "Sell"
SELL_SHORT == "Sell Short"
BUY_TO_COVER == "Buy to Cover"

\* startOfDayDTBP = Zero also stands for an absent override (both falsy)
DEFAULT_SETTINGS ==
    [broker |-> GENERIC_FINRA, isPDT |-> TRUE,
     startOfDayEquity |-> Num(30000), startOfDayMaintReq |-> Zero,
     startOfDayCash |-> Num(30000), startOfDayDTBP |-> Zero,
     maintenanceMarginPct |-> Pct(25)]

\* leverageFactor = Zero also stands for an absent factor (both falsy)
Trade(id, ts, sym, ins, side, q, p, f, lev) ==
    [id |-> id, timestamp |-> ts, symbol |-> sym, instrument |-> ins,
     side |-> side, quantity |-> Num(q), price |-> p, fees |-> Num(f),
     leverageFactor |-> Num(lev)]

\* String.prototype.toUpperCase on the symbols of the input universe
toUpperCase(s) ==
    CASE s = "spy" -> "SPY"
      [] s = "tsla" -> "TSLA"
      [] OTHER -> s

---------------------------------------------------------------------------
(* Array.prototype.sort((a, b) => a.timestamp - b.timestamp): a stable     *)
(* sort, elements compared by the sign of the timestamp difference         *)
compare(a, b) == a.timestamp - b.timestamp

\* variant of the insertion: an equal timestamp goes in front
RECURSIVE insert_Unstable(_, _)
insert_Unstable(t, s) ==
    IF s = <<>> THEN <<t>>
    ELSE LET last == s[Len(s)]
         IN  IF compare(last, t) >= 0
             THEN Append(insert_Unstable(t, SubSeq(s, 1, Len(s) - 1)), last)
             ELSE Append(s, t)

RECURSIVE insert(_, _)
insert(t, s) ==
    IF s = <<>> THEN <<t>>
    ELSE LET last == s[Len(s)]
         IN  IF compare(last, t) > 0
             THEN Append(insert(t, SubSeq(s, 1, Len(s) - 1)), last)
             ELSE Append(s, t)

RECURSIVE sortFrom(_, _)
sortFrom(ts, acc) ==
    IF ts = <<>> THEN acc ELSE sortFrom(Tail(ts), insert(Head(ts), acc))

\* variant of the sequencer: the array is replayed as given
sortedTradesOf_Unsorted(ts) == ts

sortedTradesOf(ts) == sortFrom(ts, <<>>)

\* Array.from(new Set(warnings)): first occurrences, in order
RECURSIVE uniq(_, _)
uniq(w, acc) ==
    IF w = <<>> THEN acc
    ELSE IF \E i \in 1..Len(acc) : acc[i] = Head(w)
         THEN uniq(Tail(w), acc)
         ELSE uniq(Tail(w), Append(acc, Head(w)))

\* variant of the return: the warnings as they were pushed
dedupe_Keep(w) == w

dedupe(w) == uniq(w, <<>>)

---------------------------------------------------------------------------
(* Classification and financials shared by the variants *)
isOption(t) == t.instrument = OPTION
isLeveragedETF(t) == t.instrument = ETF_LEVERAGED
leverageFactor(t) == IF t.leverageFactor = Zero THEN Num(1) ELSE t.leverageFactor
multiplier(t) == IF isOption(t) THEN Num(100) ELSE Num(1)
tradeNotional(t) == RMul(RMul(t.quantity, t.price), multiplier(t))
totalCost(t) == RAdd(tradeNotional(t), t.fees)
isEntryLong(t) == t.side = BUY
isEntryShort(t) == t.side = SELL_SHORT
isEntry(t) == isEntryLong(t) \/ isEntryShort(t)
isExitLong(t) == t.side = SELL
isExitShort(t) == t.side = BUY_TO_COVER
isExit(t) == isExitLong(t) \/ isExitShort(t)
requiresCashOutlay(t) == t.side = BUY \/ t.side = BUY_TO_COVER

\* the start-of-day cap of engine.ts (both variants) and part_007
maintenanceExcessStart(s) ==
    RMax(Zero, RSub(s.startOfDayEquity, s.startOfDayMaintReq))

\* variant of the cap: four times the excess whatever the PDT flag
dtbpCap_AlwaysFour(s) ==
    IF s.startOfDayDTBP # Zero /\ RLt(Zero, s.startOfDayDTBP)
    THEN s.startOfDayDTBP
    ELSE RMul(RMax(Zero, RSub(s.startOfDayEquity, s.startOfDayMaintReq)), Num(4))

dtbpCap(s) ==
    IF s.startOfDayDTBP # Zero /\ RLt(Zero, s.startOfDayDTBP)
    THEN s.startOfDayDTBP
    ELSE IF s.isPDT THEN RMul(maintenanceExcessStart(s), Num(4))
         ELSE RMul(maintenanceExcessStart(s), Num(2))

NoPositions == <<>>

\* the locals of an invocation; a variant leaves the trackers it lacks alone
Locals(eq, maint, cash, cap, audit) ==
    [dtbpUsed |-> Zero, currentEquity |-> eq, currentMaintenanceReq |-> maint,
     spendableCash |-> cash, pendingCash |-> Zero, intradayBP |-> cap,
     openPositions |-> NoPositions, warnings |-> <<>>, auditLog |-> audit]

HasPos(op, sym) == sym \in DOMAIN op
PutPos(op, sym, q, a) ==
    [k \in (DOMAIN op) \cup {sym} |->
        IF k = sym THEN [quantity |-> q, avgPrice |-> a] ELSE op[k]]
DelPos(op, sym) == [k \in (DOMAIN op) \ {sym} |-> op[k]]

---------------------------------------------------------------------------
(* Variant "custom": src/services/engine.ts 32-222 *)
SPECIAL_MARGIN_REQS ==
    [k \in {"AVGO", "SPY", "QQQ", "TSLA", "NVDA", "GS", "GOOG", "AMD",
            "MSTR", "GLD"} |->
        CASE k = "TSLA" -> Pct(40)
          [] k = "MSTR" -> Pct(100)
          [] OTHER -> Pct(30)]

\* variant of the initialisation: dtbpUsed kept from the previous invocation
CustomInit_Stale(s) ==
    [Locals(s.startOfDayEquity, Zero, Zero, Zero,
            << <<"Init", s.startOfDayEquity, dtbpCap(s)>> >>)
        EXCEPT !.dtbpUsed = st.dtbpUsed]

CustomInit(s) ==
    Locals(s.startOfDayEquity, Zero, Zero, Zero,
           << <<"Init", s.startOfDayEquity, dtbpCap(s)>> >>)

\* A) DTBP usage: entries consume, exits are not looked at
CustomConsumption(t) ==
    IF isOption(t) THEN totalCost(t)
    ELSE IF isLeveragedETF(t) /\ RLt(Num(1), leverageFactor(t))
         THEN RMul(totalCost(t), RMin(leverageFactor(t), Num(4)))
         ELSE totalCost(t)

\* variant of the usage: a standard credit-back of the exit's cost
CustomDtbpUsed_CreditBack(used, t) ==
    IF isEntry(t) THEN RAdd(used, CustomConsumption(t))
    ELSE RSub(used, totalCost(t))

CustomDtbpUsed(used, t) ==
    IF isEntry(t) THEN RAdd(used, CustomConsumption(t)) ELSE used

\* B) the margin requirement percentage
\* variant of the percentage: the symbol table is consulted before the
\* instrument
CustomReqPercent_TableFirst(t) ==
    LET symbol == toUpperCase(t.symbol)
    IN  IF symbol \in DOMAIN SPECIAL_MARGIN_REQS
        THEN IF isEntryShort(t)
             THEN RMax(SPECIAL_MARGIN_REQS[symbol], Pct(40))
             ELSE SPECIAL_MARGIN_REQS[symbol]
        ELSE IF isOption(t) THEN Pct(100)
        ELSE IF isEntryShort(t)
        THEN IF isLeveragedETF(t)
             THEN RMin(RMul(Pct(40), leverageFactor(t)), Num(1))
             ELSE Pct(40)
        ELSE IF isLeveragedETF(t)
        THEN RMin(RMul(Pct(25), leverageFactor(t)), Num(1))
        ELSE Pct(25)

\* variant of the percentage: the short rule is consulted before the
\* symbol table
CustomReqPercent_ShortFirst(t) ==
    LET symbol == toUpperCase(t.symbol)
    IN  IF isOption(t) THEN Pct(100)
        ELSE IF isEntryShort(t)
        THEN IF isLeveragedETF(t)
             THEN RMin(RMul(Pct(40), leverageFactor(t)), Num(1))
             ELSE Pct(40)
        ELSE IF symbol \in DOMAIN SPECIAL_MARGIN_REQS
        THEN SPECIAL_MARGIN_REQS[symbol]
        ELSE IF isLeveragedETF(t)
        THEN RMin(RMul(Pct(25), leverageFactor(t)), Num(1))
        ELSE Pct(25)

\* variant of the percentage: the leverage scaling is not capped
CustomReqPercent_Uncapped(t) ==
    LET symbol == toUpperCase(t.symbol)
    IN  IF isOption(t) THEN Pct(100)
        ELSE IF symbol \in DOMAIN SPECIAL_MARGIN_REQS
        THEN IF isEntryShort(t)
             THEN RMax(SPECIAL_MARGIN_REQS[symbol], Pct(40))
             ELSE SPECIAL_MARGIN_REQS[symbol]
        ELSE IF isEntryShort(t)
        THEN IF isLeveragedETF(t)
             THEN RMul(Pct(40), leverageFactor(t))
             ELSE Pct(40)
        ELSE IF isLeveragedETF(t)
        THEN RMul(Pct(25), leverageFactor(t))
        ELSE Pct(25)

CustomReqPercent(t) ==
    LET symbol == toUpperCase(t.symbol)
    IN  IF isOption(t) THEN Pct(100)
        ELSE IF symbol \in DOMAIN SPECIAL_MARGIN_REQS
        THEN IF isEntryShort(t)
             THEN RMax(SPECIAL_MARGIN_REQS[symbol], Pct(40))
             ELSE SPECIAL_MARGIN_REQS[symbol]
        ELSE IF isEntryShort(t)
        THEN IF isLeveragedETF(t)
             THEN RMin(RMul(Pct(40), leverageFactor(t)), Num(1))
             ELSE Pct(40)
        ELSE IF isLeveragedETF(t)
        THEN RMin(RMul(Pct(25), leverageFactor(t)), Num(1))
        ELSE Pct(25)

CustomTradeReq(t) == RMul(tradeNotional(t), CustomReqPercent(t))

\* variant of the release: the exit keeps the requirement
CustomReleaseMargin_Kept(req, t) == req

CustomReleaseMargin(req, t) == RSub(req, CustomTradeReq(t))

CustomMaintenanceReq(req, t) ==
    IF isEntry(t) THEN RAdd(req, CustomTradeReq(t))
    ELSE IF isExit(t) THEN CustomReleaseMargin(req, t)
    ELSE req

CustomPnl(op, t) ==
    LET symbol == toUpperCase(t.symbol)
    IN  IF HasPos(op, symbol)
        THEN LET costBasis == RMul(op[symbol].avgPrice, t.quantity)
             IN  IF isExitLong(t) THEN RSub(tradeNotional(t), costBasis)
                 ELSE IF isExitShort(t) THEN RSub(costBasis, tradeNotional(t))
                 ELSE Zero
        ELSE Zero

CustomEquity(eq, op, t) ==
    IF isEntry(t) THEN RSub(eq, t.fees)
    ELSE IF isExit(t) THEN RSub(RAdd(eq, CustomPnl(op, t)), t.fees)
    ELSE eq

\* C) position tracking
\* variant of the tracking: the average is the price of the last entry
CustomPositions_LastPrice(op, t) ==
    LET symbol == toUpperCase(t.symbol)
        old == IF HasPos(op, symbol) THEN op[symbol]
               ELSE [quantity |-> Zero, avgPrice |-> Zero]
        newQty == IF isEntry(t) THEN RAdd(old.quantity, t.quantity)
                  ELSE RSub(old.quantity, t.quantity)
        newAvg == IF isEntry(t) THEN t.price ELSE old.avgPrice
    IN  IF RLe(newQty, Norm(1, 10000)) THEN DelPos(op, symbol)
        ELSE PutPos(op, symbol, newQty, newAvg)

CustomPositions(op, t) ==
    LET symbol == toUpperCase(t.symbol)
        old == IF HasPos(op, symbol) THEN op[symbol]
               ELSE [quantity |-> Zero, avgPrice |-> Zero]
        newQty == IF isEntry(t) THEN RAdd(old.quantity, t.quantity)
                  ELSE RSub(old.quantity, t.quantity)
        newAvg == IF isEntry(t) /\ RLt(Zero, newQty)
                  THEN RDiv(RAdd(RMul(old.quantity, old.avgPrice),
                                 tradeNotional(t)), newQty)
                  ELSE old.avgPrice
    IN  IF RLe(newQty, Norm(1, 10000)) THEN DelPos(op, symbol)
        ELSE PutPos(op, symbol, newQty, newAvg)

CustomAudit(log, t) ==
    IF isEntry(t) /\ toUpperCase(t.symbol) \in DOMAIN SPECIAL_MARGIN_REQS
    THEN Append(log, <<"CustomRule", toUpperCase(t.symbol), CustomReqPercent(t)>>)
    ELSE log

\* D) per-trade warnings
\* variant of the warnings: a remaining DTBP of exactly zero is a violation
CustomWarnings_AtZero(w, s, used, eq, req, t) ==
    LET w1 == IF RLe(RSub(dtbpCap(s), used), Zero)
              THEN Append(w, <<"VIOLATION: DTBP Exceeded on Trade", t.id>>)
              ELSE w
    IN  IF RLt(RSub(eq, req), Zero)
        THEN Append(w1, <<"CRITICAL: MARGIN CALL PREDICTED">>)
        ELSE w1

CustomWarnings(w, s, used, eq, req, t) ==
    LET w1 == IF RLt(RSub(dtbpCap(s), used), Zero)
              THEN Append(w, <<"VIOLATION: DTBP Exceeded on Trade", t.id>>)
              ELSE w
    IN  IF RLt(RSub(eq, req), Zero)
        THEN Append(w1, <<"CRITICAL: MARGIN CALL PREDICTED">>)
        ELSE w1

CustomStep(s, l, t) ==
    LET used == CustomDtbpUsed(l.dtbpUsed, t)
        req == CustomMaintenanceReq(l.currentMaintenanceReq, t)
        eq == CustomEquity(l.currentEquity, l.openPositions, t)
    IN  [l EXCEPT !.dtbpUsed = used,
                  !.currentMaintenanceReq = req,
                  !.currentEquity = eq,
                  !.openPositions = CustomPositions(l.openPositions, t),
                  !.auditLog = CustomAudit(l.auditLog, t),
                  !.warnings = CustomWarnings(l.warnings, s, used, eq, req, t)]

\* 3. final outputs
CustomFinalDTBP(s, l) == RMax(Zero, RSub(dtbpCap(s), l.dtbpUsed))
\* variant of the excess: no clamp at zero
CustomFinalExcess_Unclamped(l) ==
    RSub(l.currentEquity, l.currentMaintenanceReq)

CustomFinalExcess(l) ==
    RMax(Zero, RSub(l.currentEquity, l.currentMaintenanceReq))

\* variant of the stock capacity: the remaining DTBP alone
CustomStockBP_DtbpOnly(s, l) == RMax(Zero, RSub(dtbpCap(s), l.dtbpUsed))

CustomStockBP(s, l) ==
    RMin(CustomFinalDTBP(s, l), RMul(CustomFinalExcess(l), Num(4)))

STOCK_BP_DEPLETED == <<"CRITICAL: Stock Buying Power Depleted">>

\* variant of the terminal warning: only below zero
CustomTerminalWarnings_BelowZero(w, stockBP) ==
    IF RLt(stockBP, Zero) THEN Append(w, STOCK_BP_DEPLETED) ELSE w

CustomTerminalWarnings(w, stockBP) ==
    IF RLe(stockBP, Zero) THEN Append(w, STOCK_BP_DEPLETED) ELSE w

CustomReturn(s, l) ==
    LET stockBP == CustomStockBP(s, l)
        optionBP == CustomFinalExcess(l)
        w == CustomTerminalWarnings(l.warnings, stockBP)
    IN  [currentEquity |-> l.currentEquity, currentCash |-> optionBP,
         stockBP |-> stockBP, optionBP |-> optionBP,
         dtbpStartOfDay |-> dtbpCap(s), intradayBP |-> stockBP,
         warnings |-> dedupe(w), auditLog |-> l.auditLog,
         openPositions |-> l.openPositions]

---------------------------------------------------------------------------
(* Variant "ledger": src/services/engine.ts 246-468 *)
LedgerInit(s) ==
    Locals(s.startOfDayEquity, Zero, s.startOfDayCash, dtbpCap(s),
           << <<"Initialization", s.broker, s.startOfDayEquity, s.startOfDayCash>>,
              <<"Start-of-Day DTBP", dtbpCap(s)>> >>)

LedgerPenaltyApplies(s, t) ==
    s.broker = SCHWAB_TOS /\ isLeveragedETF(t) /\ RLt(Num(1), leverageFactor(t))

LedgerConsumption(s, t) ==
    IF ~isOption(t)
    THEN IF LedgerPenaltyApplies(s, t)
         THEN RMul(totalCost(t), leverageFactor(t))
         ELSE totalCost(t)
    ELSE totalCost(t)

LedgerDtbpUsed(s, used, t) ==
    IF isEntry(t) THEN RAdd(used, LedgerConsumption(s, t)) ELSE used

\* 2A) pre-trade safety checks
LedgerPreWarnings(w, s, l, t) ==
    LET w1 == IF requiresCashOutlay(t)
                 /\ RLt(RSub(l.spendableCash, totalCost(t)), Zero)
              THEN Append(w, <<"Insufficient SPENDABLE CASH for trade", t.id,
                               totalCost(t), l.spendableCash>>)
              ELSE w
    IN  IF isEntry(t)
           /\ RLt(RSub(dtbpCap(s), RAdd(l.dtbpUsed, LedgerConsumption(s, t))), Zero)
        THEN Append(w1, <<"DTBP would be exceeded by trade", t.id>>)
        ELSE w1

\* 2B) cash and ledger updates
LedgerSpendableCash(cash, t) ==
    IF requiresCashOutlay(t) THEN RSub(cash, totalCost(t)) ELSE cash

LedgerPendingCash(pending, t) ==
    IF ~requiresCashOutlay(t) /\ t.side = SELL
    THEN RAdd(pending, RSub(tradeNotional(t), t.fees))
    ELSE pending

\* 2C) audit lines of the trade
LedgerAudit(log, s, used, t) ==
    LET l0 == Append(log, <<"Trade", t.id, t.side, t.quantity, t.symbol, t.price>>)
    IN  IF isEntry(t)
        THEN LET l1 == IF ~isOption(t) /\ LedgerPenaltyApplies(s, t)
                       THEN Append(l0, <<"Schwab Leveraged ETF penalty applied",
                                         LedgerConsumption(s, t)>>)
                       ELSE l0
             IN  Append(l1, <<"DTBP Used increased to", used>>)
        ELSE IF isExit(t)
        THEN Append(l0, <<"DTBP: Exit trade does NOT recycle BP">>)
        ELSE l0

\* 2D) position tracking, keyed by the symbol as typed
LedgerPositions(op, t) ==
    LET old == IF HasPos(op, t.symbol) THEN op[t.symbol]
               ELSE [quantity |-> Zero, avgPrice |-> Zero]
        direction == IF isEntry(t)
                     THEN (IF t.side = BUY THEN Num(1) ELSE Num(-1))
                     ELSE (IF t.side = SELL THEN Num(-1) ELSE Num(1))
        newQty == RAdd(old.quantity, RMul(t.quantity, direction))
        newAvg == IF isEntry(t) THEN t.price ELSE old.avgPrice
    IN  IF newQty = Zero THEN DelPos(op, t.symbol)
        ELSE PutPos(op, t.symbol, newQty, newAvg)

\* 2E) hard-stop warnings
LedgerPostWarnings(w, bp, cash, t) ==
    LET w1 == IF RLt(bp, Zero)
              THEN Append(w, <<"CRITICAL: DTBP Exceeded after trade", t.id>>)
              ELSE w
    IN  IF RLt(cash, Zero)
        THEN Append(w1, <<"CRITICAL: Spendable Cash negative after trade", t.id>>)
        ELSE w1

LedgerStep(s, l, t) ==
    LET used == LedgerDtbpUsed(s, l.dtbpUsed, t)
        cash == LedgerSpendableCash(l.spendableCash, t)
        bp == RSub(dtbpCap(s), used)
    IN  [l EXCEPT !.dtbpUsed = used,
                  !.spendableCash = cash,
                  !.pendingCash = LedgerPendingCash(l.pendingCash, t),
                  !.intradayBP = bp,
                  !.openPositions = LedgerPositions(l.openPositions, t),
                  !.auditLog = LedgerAudit(l.auditLog, s, used, t),
                  !.warnings = LedgerPostWarnings(
                                   LedgerPreWarnings(l.warnings, s, l, t),
                                   bp, cash, t)]

\* 3) final dashboard outputs
LedgerStockBP(l) == l.intradayBP

LedgerReturn(s, l) ==
    [currentEquity |-> s.startOfDayEquity,
     currentCash |-> RAdd(l.spendableCash, l.pendingCash),
     stockBP |-> LedgerStockBP(l), optionBP |-> RMax(Zero, l.spendableCash),
     dtbpStartOfDay |-> dtbpCap(s), intradayBP |-> l.intradayBP,
     warnings |-> dedupe(l.warnings), auditLog |-> l.auditLog,
     openPositions |-> l.openPositions]

---------------------------------------------------------------------------
(* Variant "avoid": src/unnamed/part_007 *)
AvoidInit(s) ==
    Locals(s.startOfDayEquity, Zero, s.startOfDayCash, dtbpCap(s),
           << <<"Init", s.startOfDayEquity, s.startOfDayCash, dtbpCap(s)>> >>)

\* A) cash
AvoidSpendableCash(cash, t) ==
    IF requiresCashOutlay(t) THEN RSub(cash, totalCost(t)) ELSE cash

AvoidPendingCash(pending, t) ==
    IF ~requiresCashOutlay(t) /\ t.side = SELL
    THEN RAdd(pending, RSub(tradeNotional(t), t.fees))
    ELSE pending

AvoidWarnings(w, cash, t) ==
    IF requiresCashOutlay(t) /\ RLt(cash, Zero)
    THEN Append(w, <<"Warning: Spendable Cash went negative on trade", t.id, t.symbol>>)
    ELSE w

\* B) DTBP
AvoidConsumption(t) ==
    IF isOption(t) THEN totalCost(t)
    ELSE IF isLeveragedETF(t) /\ RLt(Num(1), leverageFactor(t))
         THEN RMul(totalCost(t), RMin(leverageFactor(t), Num(4)))
         ELSE totalCost(t)

AvoidDtbpUsed(used, t) ==
    IF isEntry(t) THEN RAdd(used, AvoidConsumption(t)) ELSE used

AvoidAudit(log, t) ==
    IF isEntry(t)
    THEN IF isOption(t)
         THEN Append(log, <<"Option consumed", t.id, AvoidConsumption(t)>>)
         ELSE IF isLeveragedETF(t) /\ RLt(Num(1), leverageFactor(t))
         THEN Append(log, <<"Lev ETF consumed", t.id, leverageFactor(t),
                            AvoidConsumption(t)>>)
         ELSE log
    ELSE IF isExit(t)
    THEN Append(log, <<"Exit: No DTBP credit returned", t.id>>)
    ELSE log

\* C) positions, keyed by the symbol as typed
AvoidPositions(op, t) ==
    LET old == IF HasPos(op, t.symbol) THEN op[t.symbol]
               ELSE [quantity |-> Zero, avgPrice |-> Zero]
        direction == IF t.side = BUY \/ t.side = BUY_TO_COVER
                     THEN Num(1) ELSE Num(-1)
        newQty == RAdd(old.quantity, RMul(t.quantity, direction))
        newAvg == IF isEntry(t) /\ newQty # Zero
                  THEN RDiv(RAdd(RMul(old.quantity, old.avgPrice),
                                 RMul(t.quantity, t.price)), newQty)
                  ELSE old.avgPrice
    IN  IF RLt(RAbs(newQty), Norm(1, 10000)) THEN DelPos(op, t.symbol)
        ELSE PutPos(op, t.symbol, newQty, newAvg)

AvoidStep(s, l, t) ==
    LET cash == AvoidSpendableCash(l.spendableCash, t)
    IN  [l EXCEPT !.dtbpUsed = AvoidDtbpUsed(l.dtbpUsed, t),
                  !.spendableCash = cash,
                  !.pendingCash = AvoidPendingCash(l.pendingCash, t),
                  !.openPositions = AvoidPositions(l.openPositions, t),
                  !.auditLog = AvoidAudit(l.auditLog, t),
                  !.warnings = AvoidWarnings(l.warnings, cash, t)]

\* 3. final calculations
AvoidIntradayBP(s, l) == RMax(Zero, RSub(dtbpCap(s), l.dtbpUsed))

AvoidReturn(s, l) ==
    LET intradayBP == AvoidIntradayBP(s, l)
        w == IF RLe(intradayBP, Zero)
             THEN Append(l.warnings,
                         <<"CRITICAL: Day Trading Buying Power Depleted">>)
             ELSE l.warnings
    IN  [currentEquity |-> s.startOfDayEquity,
         currentCash |-> RAdd(l.spendableCash, l.pendingCash),
         stockBP |-> intradayBP, optionBP |-> RMax(Zero, l.spendableCash),
         dtbpStartOfDay |-> dtbpCap(s), intradayBP |-> intradayBP,
         warnings |-> dedupe(w), auditLog |-> l.auditLog,
         openPositions |-> l.openPositions]

---------------------------------------------------------------------------
(* Variant "basic": src/unnamed/part_006 *)
BASIC_MARGIN_REQS ==
    [k \in {"AVGO", "SPY", "QQQ", "TSLA", "NVDA", "MSTR"} |->
        CASE k = "AVGO" -> Pct(30)
          [] k = "NVDA" -> Pct(30)
          [] k = "TSLA" -> Pct(40)
          [] k = "MSTR" -> Pct(100)
          [] OTHER -> Pct(25)]

BasicDtbpCap(s) ==
    IF s.startOfDayDTBP # Zero THEN s.startOfDayDTBP
    ELSE IF s.isPDT THEN RMul(maintenanceExcessStart(s), Num(4))
         ELSE RMul(maintenanceExcessStart(s), Num(2))

BasicInit(s) ==
    Locals(s.startOfDayEquity, s.startOfDayMaintReq, Zero, Zero,
           << <<"Init", s.startOfDayEquity, BasicDtbpCap(s)>> >>)

BasicNotional(t) == RMul(RMul(RAbs(t.quantity), t.price), multiplier(t))

BasicReqPercent(s, t) ==
    LET symbol == toUpperCase(t.symbol)
        base == IF isOption(t) THEN Pct(100)
                ELSE IF symbol \in DOMAIN BASIC_MARGIN_REQS
                THEN BASIC_MARGIN_REQS[symbol]
                ELSE IF s.maintenanceMarginPct # Zero
                THEN s.maintenanceMarginPct
                ELSE Pct(25)
    IN  IF isLeveragedETF(t) /\ t.leverageFactor # Zero
        THEN RMin(Num(1), RMul(base, t.leverageFactor))
        ELSE base

BasicDtbpUsed(used, t) ==
    IF isEntry(t) THEN RAdd(used, BasicNotional(t)) ELSE used

BasicMaintenanceReq(s, req, t) ==
    LET amount == RMul(BasicNotional(t), BasicReqPercent(s, t))
    IN  IF isEntry(t) THEN RAdd(req, amount)
        ELSE RMax(Zero, RSub(req, amount))

BasicAudit(log, s, n, t) ==
    IF isEntry(t)
    THEN Append(log, <<"OPEN", n, t.side, t.quantity, toUpperCase(t.symbol),
                       BasicNotional(t)>>)
    ELSE Append(log, <<"CLOSE", n, t.side, t.quantity, toUpperCase(t.symbol),
                       RMul(BasicNotional(t), BasicReqPercent(s, t))>>)

BasicStep(s, l, t) ==
    [l EXCEPT !.dtbpUsed = BasicDtbpUsed(l.dtbpUsed, t),
              !.currentMaintenanceReq =
                  BasicMaintenanceReq(s, l.currentMaintenanceReq, t),
              !.currentEquity = RSub(l.currentEquity, t.fees),
              !.auditLog = BasicAudit(l.auditLog, s, Len(l.auditLog), t)]

BasicReturn(s, l) ==
    LET marginExcess == RSub(l.currentEquity, l.currentMaintenanceReq)
        w == IF RLt(marginExcess, Zero)
             THEN Append(l.warnings, <<"MARGIN CALL", RAbs(marginExcess)>>)
             ELSE l.warnings
    IN  [currentEquity |-> l.currentEquity,
         currentCash |-> RMax(Zero, marginExcess),
         stockBP |-> RMax(Zero, RMin(RSub(BasicDtbpCap(s), l.dtbpUsed),
                                     RMul(marginExcess, Num(4)))),
         optionBP |-> RMax(Zero, marginExcess),
         dtbpStartOfDay |-> BasicDtbpCap(s), intradayBP |-> Zero,
         warnings |-> w, auditLog |-> l.auditLog,
         openPositions |-> NoPositions]

---------------------------------------------------------------------------
(* calculateBuyingPower as a whole: dispatch on the variant, and the fold  *)
(* of the loop body over the replay sequence                               *)
Engines == {"custom", "ledger", "avoid", "basic"}

InitOf(e, s) ==
    CASE e = "custom" -> CustomInit(s)
      [] e = "ledger" -> LedgerInit(s)
      [] e = "avoid" -> AvoidInit(s)
      [] e = "basic" -> BasicInit(s)

StepOf(e, s, l, t) ==
    CASE e = "custom" -> CustomStep(s, l, t)
      [] e = "ledger" -> LedgerStep(s, l, t)
      [] e = "avoid" -> AvoidStep(s, l, t)
      [] e = "basic" -> BasicStep(s, l, t)

ReturnOf(e, s, l) ==
    CASE e = "custom" -> CustomReturn(s, l)
      [] e = "ledger" -> LedgerReturn(s, l)
      [] e = "avoid" -> AvoidReturn(s, l)
      [] e = "basic" -> BasicReturn(s, l)

RECURSIVE Replay(_, _, _, _)
Replay(e, s, l, seq) ==
    IF seq = <<>> THEN l ELSE Replay(e, s, StepOf(e, s, l, Head(seq)), Tail(seq))

calculateBuyingPower(e, s, ts) ==
    ReturnOf(e, s, Replay(e, s, InitOf(e, s), sortedTradesOf(ts)))

---------------------------------------------------------------------------
(* Input universes *)
SMALL_SETTINGS ==
    [broker |-> SCHWAB_TOS, isPDT |-> FALSE,
     startOfDayEquity |-> Num(1000), startOfDayMaintReq |-> Num(200),
     startOfDayCash |-> Num(500), startOfDayDTBP |-> Zero,
     maintenanceMarginPct |-> Zero]

OVERRIDE_SETTINGS ==
    [broker |-> GENERIC_FINRA, isPDT |-> TRUE,
     startOfDayEquity |-> Num(2000), startOfDayMaintReq |-> Num(3000),
     startOfDayCash |-> Zero, startOfDayDTBP |-> Num(5000),
     maintenanceMarginPct |-> Pct(30)]

NEGATIVE_SETTINGS ==
    [broker |-> GENERIC_FINRA, isPDT |-> TRUE,
     startOfDayEquity |-> Num(-100), startOfDayMaintReq |-> Zero,
     startOfDayCash |-> Num(-50), startOfDayDTBP |-> Num(-50),
     maintenanceMarginPct |-> Pct(25)]

ReplaySettings ==
    {DEFAULT_SETTINGS, SMALL_SETTINGS, OVERRIDE_SETTINGS, NEGATIVE_SETTINGS}

\* trades without id and timestamp
ReplayShapes ==
    { Trade(0, 0, "SPY", STOCK, BUY, 100, Num(100), 0, 0),
      Trade(0, 0, "SPY", STOCK, SELL, 100, Num(100), 0, 0),
      Trade(0, 0, "XYZ", STOCK, BUY, 50, Num(40), 0, 0),
      Trade(0, 0, "XYZ", STOCK, SELL, 50, Num(60), 1, 0),
      Trade(0, 0, "AAPL", OPTION, BUY, 1, Num(5), 0, 0),
      Trade(0, 0, "tsla", OPTION, SELL_SHORT, 2, Norm(5, 2), 1, 3),
      Trade(0, 0, "TQQQ", ETF_LEVERAGED, BUY, 10, Num(100), 0, 3),
      Trade(0, 0, "SQQQ", ETF_LEVERAGED, SELL_SHORT, 10, Num(100), 2, 5),
      Trade(0, 0, "SQQQ", ETF_LEVERAGED, BUY_TO_COVER, 10, Num(90), 2, 5),
      Trade(0, 0, "MSTR", STOCK, BUY, 2000, Num(100), 5, 0),
      Trade(0, 0, "XYZ", STOCK, SELL_SHORT, 3, Zero, 0, 0),
      Trade(0, 0, "QQQ", ETF_LEVERAGED, SELL_SHORT, 10, Num(100), 0, 3) }

\* the i-th trade of a log entered in time order
Stamp(shape, i) == [shape EXCEPT !.id = i, !.timestamp = 1000 * i]

ReplayLogs ==
    UNION { { [i \in 1..n |-> Stamp(f[i], i)] : f \in [1..n -> ReplayShapes] }
            : n \in 0..MaxReplay }

\* logs in any array order: distinct ids, timestamps possibly tied
SortPool ==
    << Trade(0, 0, "SPY", STOCK, BUY, 2, Num(100), 0, 0),
       Trade(0, 0, "SPY", STOCK, SELL, 2, Num(150), 1, 0),
       Trade(0, 0, "TQQQ", ETF_LEVERAGED, BUY, 1, Num(100), 0, 3),
       Trade(0, 0, "AAPL", OPTION, SELL_SHORT, 1, Num(5), 1, 0) >>

SortShape(id) == SortPool[((id - 1) % Len(SortPool)) + 1]

SortLogs ==
    UNION { { [i \in 1..n |-> [SortShape(ids[i]) EXCEPT !.id = ids[i],
                                                       !.timestamp = tss[i]]]
              : ids \in { f \in [1..n -> 1..MaxTrades] :
                            \A i, j \in 1..n : i # j => f[i] # f[j] },
                tss \in [1..n -> 1..MaxTs] }
            : n \in 0..MaxTrades }

CallLogs ==
    UNION { { [i \in 1..n |-> Stamp(SortShape(f[i]), i)] : f \in [1..n -> 1..2] }
            : n \in 0..MaxReplay }

\* logs that build, blend, close and over-close positions
PosShapes ==
    { Trade(0, 0, "XYZ", STOCK, BUY, 50, Num(40), 0, 0),
      Trade(0, 0, "XYZ", STOCK, BUY, 50, Num(60), 1, 0),
      Trade(0, 0, "XYZ", STOCK, SELL, 50, Num(40), 0, 0),
      Trade(0, 0, "XYZ", STOCK, SELL, 100, Num(60), 1, 0),
      Trade(0, 0, "ABC", STOCK, SELL_SHORT, 10, Num(100), 0, 0),
      Trade(0, 0, "ABC", STOCK, BUY_TO_COVER, 10, Num(100), 0, 0),
      Trade(0, 0, "SQQQ", ETF_LEVERAGED, SELL_SHORT, 10, Num(100), 2, 5),
      Trade(0, 0, "TQQQ", ETF_LEVERAGED, BUY, 10, Num(100), 0, 3) }

PosLogs ==
    UNION { { [i \in 1..n |-> Stamp(f[i], i)] : f \in [1..n -> PosShapes] }
            : n \in 0..MaxPos }

SettingsOf(p) ==
    CASE p = "replay" -> ReplaySettings
      [] p = "pos" -> {DEFAULT_SETTINGS}
      [] p = "sort" -> {DEFAULT_SETTINGS, SMALL_SETTINGS}
      [] p = "calls" -> {DEFAULT_SETTINGS, SMALL_SETTINGS}

LogsOf(p) ==
    CASE p = "replay" -> ReplayLogs
      [] p = "pos" -> PosLogs
      [] p = "sort" -> SortLogs
      [] p = "calls" -> CallLogs

---------------------------------------------------------------------------
(* The state machine *)
InitProfile(p) ==
    /\ profile = p
    /\ engine \in Engines
    /\ callsLeft = IF p = "calls" THEN MaxCalls ELSE 1
    /\ pc = "idle"
    /\ settings = DEFAULT_SETTINGS
    /\ trades = <<>>
    /\ sortedTrades = <<>>
    /\ idx = 0
    /\ st = Locals(Zero, Zero, Zero, Zero, <<>>)
    /\ result = calculateBuyingPower(engine, DEFAULT_SETTINGS, <<>>)
    /\ returned = {[settings |-> DEFAULT_SETTINGS, trades |-> <<>>,
                    result |-> result]}
    /\ args = [settings |-> DEFAULT_SETTINGS, trades |-> <<>>]
    /\ app = [settings |-> DEFAULT_SETTINGS, trades |-> <<>>,
              calculationResult |-> result,
              previewTrade |-> <<>>, scenarioResult |-> <<>>]
    /\ requests = <<>>
    /\ now = 0
    /\ inflight = {}
    /\ remote = {}

Init == InitProfile("replay")
InitSort == InitProfile("sort")
InitCalls == InitProfile("calls")
InitPos == InitProfile("pos")

\* entry of calculateBuyingPower(settings, trades): start-of-day state and
\* the sorted copy of the trade list
\* variant of the entry: the caller's array is sorted in place
Call_InPlace(s, ts) ==
    /\ callsLeft' = callsLeft - 1
    /\ args' = [settings |-> s, trades |-> ts]
    /\ settings' = s
    /\ trades' = sortedTradesOf(ts)
    /\ st' = InitOf(engine, s)
    /\ sortedTrades' = sortedTradesOf(ts)
    /\ idx' = 0
    /\ pc' = "loop"
    /\ UNCHANGED <<profile, engine, result, returned, app, requests, now,
                   inflight, remote>>

Call(s, ts) ==
    /\ callsLeft' = callsLeft - 1
    /\ args' = [settings |-> s, trades |-> ts]
    /\ settings' = s
    /\ trades' = ts
    /\ st' = InitOf(engine, s)
    /\ sortedTrades' = sortedTradesOf(ts)
    /\ idx' = 0
    /\ pc' = "loop"
    /\ UNCHANGED <<profile, engine, result, returned, app, requests, now,
                   inflight, remote>>

\* one iteration of the loop over sortedTrades
ProcessTrade(e) ==
    /\ engine = e
    /\ pc = "loop"
    /\ idx < Len(sortedTrades)
    /\ st' = StepOf(e, settings, st, sortedTrades[idx + 1])
    /\ idx' = idx + 1
    /\ UNCHANGED <<profile, engine, callsLeft, pc, settings, trades,
                   sortedTrades, result, returned, args, app, requests, now,
                   inflight, remote>>

ProcessTradeCustom == ProcessTrade("custom")
ProcessTradeLedger == ProcessTrade("ledger")
ProcessTradeAvoid == ProcessTrade("avoid")
ProcessTradeBasic == ProcessTrade("basic")

\* the final outputs and the return
Return(e) ==
    /\ engine = e
    /\ pc = "loop"
    /\ idx = Len(sortedTrades)
    /\ result' = ReturnOf(e, settings, st)
    /\ returned' = returned \cup {[settings |-> settings, trades |-> trades,
                                   result |-> result']}
    /\ pc' = "done"
    /\ UNCHANGED <<profile, engine, callsLeft, settings, trades,
                   sortedTrades, idx, st, args, app, requests, now,
                   inflight, remote>>

ReturnCustom == Return("custom")
ReturnLedger == Return("ledger")
ReturnAvoid == Return("avoid")
ReturnBasic == Return("basic")

\* the caller invokes the engine when no invocation is running
Invoke ==
    /\ pc \in {"idle", "done"}
    /\ callsLeft > 0
    /\ \E s \in SettingsOf(profile), ts \in LogsOf(profile) : Call(s, ts)

Next ==
    \/ Invoke
    \/ ProcessTradeCustom
    \/ ProcessTradeLedger
    \/ ProcessTradeAvoid
    \/ ProcessTradeBasic
    \/ ReturnCustom
    \/ ReturnLedger
    \/ ReturnAvoid
    \/ ReturnBasic

Spec == Init /\ [][Next]_vars
SpecSort == InitSort /\ [][Next]_vars
SpecCalls == InitCalls /\ [][Next]_vars
SpecPos == InitPos /\ [][Next]_vars

---------------------------------------------------------------------------
(* The App component: src/App.tsx 123-247 with the TradeForm of types.ts   *)
\* what the form can hold: trades without id and timestamp
AppShapes ==
    { Trade(0, 0, "SPY", STOCK, BUY, 100, Num(100), 0, 0),
      Trade(0, 0, "TQQQ", ETF_LEVERAGED, BUY, 10, Num(100), 1, 3) }

AppSettings == {DEFAULT_SETTINGS, SMALL_SETTINGS}

\* handleChange's argument to onPreview: null (no price, quantity or symbol)
\* or the form's trade with id 'preview' and timestamp Date.now()
PreviewInputs ==
    {<<>>} \cup { <<[shape EXCEPT !.id = "preview", !.timestamp = now + 1]>>
                  : shape \in AppShapes }

\* effect 2 (sync and recalculate), run when settings or trades were set
SyncEffect(a) ==
    [a EXCEPT !.calculationResult =
                  calculateBuyingPower(engine, a.settings, a.trades)]

SyncRequests(rq, a) ==
    IF Len(a.trades) > 0 THEN Append(rq, <<"saveTrades", a.trades>>) ELSE rq

\* effect 3 (scenario calculation), run when previewTrade, settings or
\* trades were set
ScenarioEffect(a) ==
    [a EXCEPT !.scenarioResult =
                  IF a.previewTrade # <<>>
                  THEN <<calculateBuyingPower(engine, a.settings,
                                              a.trades \o a.previewTrade)>>
                  ELSE <<>>]

\* the requests a handler issued are in flight; the store is not touched
Issued ==
    /\ inflight' = inflight \cup ((Len(requests) + 1)..Len(requests'))
    /\ remote' = remote

AppEvent ==
    /\ profile = "app"
    /\ now < MaxEvents
    /\ now' = now + 1
    /\ UNCHANGED <<profile, engine>>
    /\ UNCHANGED engineVars

\* variant of the wiring: onPreview commits the trade it is given
HandleChange_Commit(p) ==
    /\ AppEvent
    /\ LET a1 == [app EXCEPT !.trades = @ \o p]
       IN  /\ app' = ScenarioEffect(SyncEffect(a1))
           /\ requests' = SyncRequests(requests, a1)
           /\ Issued

\* TradeForm.handleChange -> onPreview = setPreviewTrade, then effect 3
HandleChange(p) ==
    /\ AppEvent
    /\ app' = ScenarioEffect([app EXCEPT !.previewTrade = p])
    /\ requests' = requests
    /\ Issued

\* TradeForm.handleSubmit -> handleAddTrade and onPreview(null), then
\* effects 2 and 3
HandleSubmit(shape) ==
    /\ AppEvent
    /\ LET t == [shape EXCEPT !.id = ToString(now + 1), !.timestamp = now + 1]
           a1 == [app EXCEPT !.trades = Append(@, t), !.previewTrade = <<>>]
       IN  /\ app' = ScenarioEffect(SyncEffect(a1))
           /\ requests' = SyncRequests(requests, a1)
           /\ Issued

\* handleDeleteTrade: setTrades(filter), db.deleteTrade(id), then effects
HandleDeleteTrade(id) ==
    /\ AppEvent
    /\ LET a1 == [app EXCEPT !.trades = SelectSeq(@, LAMBDA t : t.id # id)]
       IN  /\ app' = ScenarioEffect(SyncEffect(a1))
           /\ requests' = SyncRequests(Append(requests, <<"deleteTrade", id>>), a1)
           /\ Issued

\* handleResetSession, confirmed: setTrades([]), then effects
HandleResetSession ==
    /\ AppEvent
    /\ LET a1 == [app EXCEPT !.trades = <<>>]
       IN  /\ app' = ScenarioEffect(SyncEffect(a1))
           /\ requests' = SyncRequests(requests, a1)
           /\ Issued

\* SettingsPanel onSave = setSettings, then effects
SetSettings(s) ==
    /\ AppEvent
    /\ LET a1 == [app EXCEPT !.settings = s]
       IN  /\ app' = ScenarioEffect(SyncEffect(a1))
           /\ requests' = SyncRequests(requests, a1)
           /\ Issued

Preview == \E p \in PreviewInputs : HandleChange(p)
Submit == \E shape \in AppShapes : HandleSubmit(shape)
Delete == \E i \in 1..Len(app.trades) : HandleDeleteTrade(app.trades[i].id)
Reset == HandleResetSession
Configure == \E s \in AppSettings : SetSettings(s)

\* the remote store serves one request in flight: db.saveTrades upserts the
\* rows of the list it was called with (conflict target id), db.deleteTrade
\* deletes the row with the id
Ids(ts) == { ts[j].id : j \in 1..Len(ts) }

Upsert(rows, ts) ==
    { r \in rows : r.id \notin Ids(ts) } \cup { ts[j] : j \in 1..Len(ts) }

Serve(i) ==
    /\ profile = "app"
    /\ i \in inflight
    /\ inflight' = inflight \ {i}
    /\ remote' = IF requests[i][1] = "saveTrades"
                 THEN Upsert(remote, requests[i][2])
                 ELSE { r \in remote : r.id # requests[i][2] }
    /\ UNCHANGED <<profile, engine, app, requests, now>>
    /\ UNCHANGED engineVars

Settle == \E i \in inflight : Serve(i)

NextApp ==
    \/ Preview
    \/ Submit
    \/ Delete
    \/ Reset
    \/ Configure
    \/ Settle

InitApp == InitProfile("app")
SpecApp == InitApp /\ [][NextApp]_vars

---------------------------------------------------------------------------
(* Helpers of the properties *)
WellFormed(s) ==
    /\ RLe(Zero, s.startOfDayEquity)
    /\ RLe(Zero, s.startOfDayMaintReq)
    /\ RLe(Zero, s.startOfDayCash)
    /\ RLe(Zero, s.startOfDayDTBP)

\* a ProcessTrade step is being taken on sortedTrades[idx + 1]
Processing == pc = "loop" /\ idx < Len(sortedTrades) /\ idx' = idx + 1

BuySpy == Trade(1, 1000, "SPY", STOCK, BUY, 100, Num(100), 0, 0)
SellSpy == Trade(2, 2000, "SPY", STOCK, SELL, 100, Num(100), 0, 0)

---------------------------------------------------------------------------
(* C1: with the default settings and a log of exactly one fee-free stock   *)
(* BUY of notional N not above the cap, the returned stockBP is            *)
(* 120000 - N (110000 for BUY 100 SPY @ 100).                              *)
C1_OneBuySubtractsNotional ==
    (/\ pc = "done"
     /\ settings = DEFAULT_SETTINGS
     /\ Len(trades) = 1
     /\ trades[1].side = BUY
     /\ trades[1].instrument = STOCK
     /\ trades[1].fees = Zero
     /\ RLe(tradeNotional(trades[1]), Num(120000)))
    => result.stockBP = RSub(Num(120000), tradeNotional(trades[1]))

(* C2: with the default settings and the log [BUY 100 SPY @ 100,           *)
(* SELL 100 SPY @ 100], the BUY consumes 10000 of DTBP and adds a          *)
(* maintenance requirement, the SELL leaves the consumed DTBP at 10000 and *)
(* brings the maintenance requirement back to zero, and the returned       *)
(* stockBP is 110000.                                                      *)
C2_SellReleasesMarginNotDtbp ==
    (settings = DEFAULT_SETTINGS /\ trades = <<BuySpy, SellSpy>>) =>
        /\ (pc = "loop" /\ idx = 1) =>
              /\ st.dtbpUsed = Num(10000)
              /\ engine \in {"custom", "basic"} =>
                    RLt(Zero, st.currentMaintenanceReq)
        /\ (idx = 2) =>
              /\ st.dtbpUsed = Num(10000)
              /\ st.currentMaintenanceReq = Zero
        /\ (pc = "done") => result.stockBP = Num(110000)

C2_Witness ==
    /\ pc = "done"
    /\ engine = "custom"
    /\ settings = DEFAULT_SETTINGS
    /\ trades = <<BuySpy, SellSpy>>
    /\ result.stockBP = Num(110000)

(* C3: across the replay the running dtbpUsed never decreases: a step that *)
(* processes an entry adds the entry's consumption (which is not           *)
(* negative), a step that processes an exit leaves dtbpUsed unchanged.     *)
ConsumptionOf(e, s, t) ==
    CASE e = "custom" -> CustomConsumption(t)
      [] e = "ledger" -> LedgerConsumption(s, t)
      [] e = "avoid" -> AvoidConsumption(t)
      [] e = "basic" -> BasicNotional(t)

C3_DtbpUsedNonDecreasing ==
    [][Processing =>
         LET t == sortedTrades[idx + 1]
         IN  /\ RLe(st.dtbpUsed, st'.dtbpUsed)
             /\ isExit(t) => st'.dtbpUsed = st.dtbpUsed
             /\ isEntry(t) =>
                   /\ RLe(Zero, ConsumptionOf(engine, settings, t))
                   /\ st'.dtbpUsed =
                        RAdd(st.dtbpUsed, ConsumptionOf(engine, settings, t))]_vars

C3_Witness ==
    /\ idx >= 2
    /\ isEntry(sortedTrades[idx - 1])
    /\ isExit(sortedTrades[idx])
    /\ RLt(Zero, st.dtbpUsed)
    /\ RLt(Zero, totalCost(sortedTrades[idx]))

(* C4: the stockBP and optionBP returned by the custom-rules engine are    *)
(* never negative, also when the consumed DTBP exceeds the cap and the     *)
(* equity is below the maintenance requirement.                            *)
C4_CustomBPNonNegative ==
    engine = "custom" =>
        /\ RLe(Zero, result.stockBP)
        /\ RLe(Zero, result.optionBP)

C4_Witness ==
    /\ pc = "done"
    /\ engine = "custom"
    /\ RLt(dtbpCap(settings), st.dtbpUsed)
    /\ RLt(st.currentEquity, st.currentMaintenanceReq)
    /\ result.stockBP = Zero
    /\ result.optionBP = Zero

(* C5: the stockBP and optionBP returned by the cash-ledger engine are     *)
(* never negative, also when the entries consume more DTBP than the        *)
(* start-of-day cap.                                                       *)
C5_LedgerBPNonNegative ==
    (engine = "ledger" /\ WellFormed(settings)) =>
        /\ RLe(Zero, result.stockBP)
        /\ RLe(Zero, result.optionBP)

(* C6: calculateBuyingPower keeps no state between invocations: any two    *)
(* finished invocations with equal settings and equal trade lists returned *)
(* equal results, whatever invocation ran before or in between.            *)
C6_SameInputsSameResult ==
    \A a, b \in returned :
        (a.settings = b.settings /\ a.trades = b.trades) => a.result = b.result

\* the construction-time call (default settings, empty log) has been
\* repeated after a call that consumed DTBP
C6_Witness ==
    /\ profile = "calls"
    /\ pc = "done"
    /\ settings = DEFAULT_SETTINGS
    /\ trades = <<>>
    /\ \E r \in returned : r.trades # <<>> /\ RLt(r.result.stockBP, r.result.dtbpStartOfDay)

(* C7: when the timestamps of the trade list are pairwise distinct, every  *)
(* permutation of the input array gives the result that was returned.      *)
DistinctTimestamps(ts) ==
    \A i, j \in 1..Len(ts) : i # j => ts[i].timestamp # ts[j].timestamp

PermutationsOf(ts) ==
    { [i \in 1..Len(ts) |-> ts[f[i]]] : f \in Permutations(1..Len(ts)) }

C7_ArrayOrderIrrelevant ==
    (pc = "done" /\ DistinctTimestamps(trades)) =>
        \A p \in PermutationsOf(trades) :
            calculateBuyingPower(engine, settings, p) = result

\* a log given out of time order whose array-order replay would have
\* returned something else
C7_Witness ==
    /\ pc = "done"
    /\ DistinctTimestamps(trades)
    /\ Len(trades) >= 2
    /\ sortedTrades # trades
    /\ ReturnOf(engine, settings,
                Replay(engine, settings, InitOf(engine, settings), trades)) # result

(* C8: the replay sequence is a permutation of the input trade list, in    *)
(* non-decreasing timestamp order, with trades of equal timestamp in their *)
(* input order; the loop processes each of its elements once.              *)
PosIn(ts, t) == CHOOSE i \in 1..Len(ts) : ts[i] = t

C8_StableSortedPermutation ==
    (pc # "idle") =>
        /\ Len(sortedTrades) = Len(trades)
        /\ \E f \in Permutations(1..Len(trades)) :
              \A i \in 1..Len(trades) : sortedTrades[i] = trades[f[i]]
        /\ \A i, j \in 1..Len(sortedTrades) :
              i < j =>
                /\ sortedTrades[i].timestamp <= sortedTrades[j].timestamp
                /\ sortedTrades[i].timestamp = sortedTrades[j].timestamp =>
                      PosIn(trades, sortedTrades[i]) < PosIn(trades, sortedTrades[j])
        /\ idx <= Len(sortedTrades)
        /\ (pc = "done") => idx = Len(trades)

C8_Witness ==
    /\ pc = "done"
    /\ Len(trades) >= 3
    /\ sortedTrades # trades
    /\ \E i, j \in 1..Len(trades) :
          i < j /\ trades[i].timestamp = trades[j].timestamp
    /\ \E i, j \in 1..Len(trades) :
          i < j /\ trades[i].timestamp > trades[j].timestamp

(* C9: a step that processes an option entry of q contracts at price p     *)
(* adds q * p * 100 + fees to dtbpUsed and adds q * p * 100 (100% of the   *)
(* notional) to the maintenance requirement, whatever its symbol and side. *)
(* Checked on the engines of engine.ts and part_007 for the consumption    *)
(* and on the engines that keep a maintenance requirement for the margin.  *)
OptionNotional(t) == RMul(RMul(t.quantity, t.price), Num(100))

C9_OptionEntryFullCost ==
    [][(Processing /\ isOption(sortedTrades[idx + 1])
                   /\ isEntry(sortedTrades[idx + 1])) =>
         LET t == sortedTrades[idx + 1]
         IN  /\ engine \in {"custom", "ledger", "avoid"} =>
                   st'.dtbpUsed = RAdd(st.dtbpUsed, RAdd(OptionNotional(t), t.fees))
             /\ engine \in {"custom", "basic"} =>
                   st'.currentMaintenanceReq =
                       RAdd(st.currentMaintenanceReq, OptionNotional(t))]_vars

\* a short option entry on a symbol of the override table has been
\* processed by the custom-rules engine
C9_Witness ==
    /\ engine = "custom"
    /\ idx >= 1
    /\ isOption(sortedTrades[idx])
    /\ sortedTrades[idx].side = SELL_SHORT
    /\ toUpperCase(sortedTrades[idx].symbol) \in DOMAIN SPECIAL_MARGIN_REQS
    /\ RLt(Zero, sortedTrades[idx].fees)
    /\ RLe(OptionNotional(sortedTrades[idx]), st.currentMaintenanceReq)

(* C10: in every variant that applies the leveraged-ETF penalty, a step    *)
(* that processes a leveraged-ETF entry with factor L > 1 and total cost C *)
(* adds min(L, 4) * C to dtbpUsed, never more than 4 * C.                  *)
PenaltyApplied(e, s, t) ==
    /\ isEntry(t)
    /\ isLeveragedETF(t)
    /\ RLt(Num(1), leverageFactor(t))
    /\ e \in {"custom", "avoid"} \/ (e = "ledger" /\ s.broker = SCHWAB_TOS)

C10_PenaltyCappedAtFour ==
    [][(Processing /\ PenaltyApplied(engine, settings, sortedTrades[idx + 1])) =>
         LET t == sortedTrades[idx + 1]
         IN  /\ st'.dtbpUsed =
                   RAdd(st.dtbpUsed,
                        RMul(RMin(leverageFactor(t), Num(4)), totalCost(t)))
             /\ RLe(RSub(st'.dtbpUsed, st.dtbpUsed),
                    RMul(Num(4), totalCost(t)))]_vars

(* C11: the warnings of every result hold no string twice; the margin-call *)
(* warning the custom-rules engine pushed after several trades of the      *)
(* replay is returned exactly once.                                        *)
MARGIN_CALL == <<"CRITICAL: MARGIN CALL PREDICTED">>

Count(w, x) == Cardinality({ i \in 1..Len(w) : w[i] = x })

C11_WarningsDistinct ==
    /\ \A i, j \in 1..Len(result.warnings) :
          i # j => result.warnings[i] # result.warnings[j]
    /\ (pc = "done" /\ engine = "custom" /\ Count(st.warnings, MARGIN_CALL) >= 1)
          => Count(result.warnings, MARGIN_CALL) = 1

\* the margin call was detected after two trades of the replay
C11_Witness ==
    /\ pc = "done"
    /\ engine = "custom"
    /\ Count(st.warnings, MARGIN_CALL) >= 2
    /\ Count(result.warnings, MARGIN_CALL) = 1

(* C12: for settings without a negative amount the returned dtbpStartOfDay *)
(* is the override when it is above zero, and otherwise the start-of-day   *)
(* excess max(0, equity - maintenance requirement) times 4 for a PDT       *)
(* account and times 2 for any other; it is never negative and is the same *)
(* whatever trades were replayed.                                          *)
ExpectedDtbpStart(s) ==
    IF RLt(Zero, s.startOfDayDTBP) THEN s.startOfDayDTBP
    ELSE RMul(RMax(Zero, RSub(s.startOfDayEquity, s.startOfDayMaintReq)),
              IF s.isPDT THEN Num(4) ELSE Num(2))

C14_MaintenanceReqNonNegative ==
    (engine \in {"custom", "basic"} /\ pc # "idle") =>
        RLe(Zero, st.currentMaintenanceReq)

(* C15: the audit log of the custom-rules engine starts with the           *)
(* initialisation line that states the DTBP cap; every step that processes *)
(* a trade, entry or exit, appends at least one line and keeps the lines   *)
(* that are there; the result returns the log as it was written.           *)
C15_AuditLinePerTrade ==
    [][engine = "custom" =>
         /\ (pc' = "loop" /\ idx' = 0) =>
               /\ Len(st'.auditLog) = 1
               /\ st'.auditLog[1] =
                    <<"Init", settings'.startOfDayEquity, dtbpCap(settings')>>
         /\ Processing =>
               /\ Len(st'.auditLog) > Len(st.auditLog)
               /\ SubSeq(st'.auditLog, 1, Len(st.auditLog)) = st.auditLog
         /\ (pc = "loop" /\ pc' = "done") => result'.auditLog = st.auditLog]_vars

(* C16: a result of the custom-rules engine holds the terminal depletion   *)
(* warning exactly when its stockBP or its optionBP is not above zero; the *)
(* warning is pushed after the loop, behind the warnings of the trades.    *)
Contains(w, x) == \E i \in 1..Len(w) : w[i] = x

C16_TerminalWarning ==
    (pc = "done" /\ engine = "custom") =>
        /\ Contains(result.warnings, STOCK_BP_DEPLETED)
              <=> (RLe(result.stockBP, Zero) \/ RLe(result.optionBP, Zero))
        /\ ~Contains(st.warnings, STOCK_BP_DEPLETED)
        /\ Contains(result.warnings, STOCK_BP_DEPLETED)
              => result.warnings[Len(result.warnings)] = STOCK_BP_DEPLETED

\* the equity is below the requirement while DTBP is left: optionBP = 0
C16_Witness ==
    /\ pc = "done"
    /\ engine = "custom"
    /\ result.optionBP = Zero
    /\ RLt(st.dtbpUsed, result.dtbpStartOfDay)
    /\ Contains(result.warnings, STOCK_BP_DEPLETED)

(* C17: a result of the custom-rules engine holds the DTBP-violation       *)
(* warning tagged with the id of a trade exactly when dtbpCap - dtbpUsed   *)
(* was below zero right after that trade, and holds the margin-call        *)
(* warning exactly when equity - maintenance requirement was below zero    *)
(* right after some trade; the warnings come in the result that carries    *)
(* the capacities.                                                         *)
DtbpViolation(t) == <<"VIOLATION: DTBP Exceeded on Trade", t.id>>

\* the locals right after the i-th trade of the replay
CustomAfter(i) ==
    Replay("custom", settings, CustomInit(settings), SubSeq(sortedTrades, 1, i))

C17_PerTradeWarnings ==
    (pc = "done" /\ engine = "custom") =>
        /\ \A i \in 1..Len(sortedTrades) :
              Contains(result.warnings, DtbpViolation(sortedTrades[i]))
                 <=> RLt(RSub(result.dtbpStartOfDay, CustomAfter(i).dtbpUsed), Zero)
        /\ Contains(result.warnings, MARGIN_CALL)
              <=> \E i \in 1..Len(sortedTrades) :
                     RLt(RSub(CustomAfter(i).currentEquity,
                              CustomAfter(i).currentMaintenanceReq), Zero)

\* the second trade broke the cap and the requirement, the first did not
C17_Witness ==
    /\ pc = "done"
    /\ engine = "custom"
    /\ Len(sortedTrades) = 2
    /\ ~Contains(result.warnings, DtbpViolation(sortedTrades[1]))
    /\ Contains(result.warnings, DtbpViolation(sortedTrades[2]))
    /\ Contains(result.warnings, MARGIN_CALL)
    /\ RLe(CustomAfter(1).currentMaintenanceReq, CustomAfter(1).currentEquity)

(* C20: in the custom-rules engine a step that processes a non-option      *)
(* trade whose upper-cased symbol is in the override table moves the       *)
(* maintenance requirement by the notional times the table's percentage,   *)
(* whatever the leverage factor; for a SELL_SHORT entry the percentage is  *)
(* the table's value raised to at least 0.40. The generic short and        *)
(* leveraged-ETF percentages are not used for such a trade.                *)
InTable(t) == ~isOption(t) /\ toUpperCase(t.symbol) \in DOMAIN SPECIAL_MARGIN_REQS

\* the requirement moved by the notional times pct: up on an entry, down on
\* an exit
MovedBy(t, pct) ==
    st'.currentMaintenanceReq =
        IF isEntry(t)
        THEN RAdd(st.currentMaintenanceReq, RMul(tradeNotional(t), pct))
        ELSE RSub(st.currentMaintenanceReq, RMul(tradeNotional(t), pct))

C20_TableValueShortFloor ==
    [][(Processing /\ engine = "custom" /\ InTable(sortedTrades[idx + 1])) =>
         LET t == sortedTrades[idx + 1]
             fixed == SPECIAL_MARGIN_REQS[toUpperCase(t.symbol)]
         IN  MovedBy(t, IF t.side = SELL_SHORT THEN RMax(fixed, Pct(40))
                        ELSE fixed)]_vars

\* the claim as stated: the table's value for every side
C20_TableValueEverySide ==
    [][(Processing /\ engine = "custom" /\ InTable(sortedTrades[idx + 1])) =>
         LET t == sortedTrades[idx + 1]
         IN  MovedBy(t, SPECIAL_MARGIN_REQS[toUpperCase(t.symbol)])]_vars

\* a short entry on a leveraged ETF of the table (30%, factor 3) has been
\* processed at 40% of its notional of 1000
C20_Witness ==
    /\ engine = "custom"
    /\ idx = 1
    /\ InTable(sortedTrades[1])
    /\ sortedTrades[1].side = SELL_SHORT
    /\ isLeveragedETF(sortedTrades[1])
    /\ tradeNotional(sortedTrades[1]) = Num(1000)
    /\ st.currentMaintenanceReq = Num(400)

(* C18: calculateBuyingPower leaves its inputs as the caller passed them:  *)
(* during and after the invocation the caller's trades array holds the     *)
(* same trades in the same order, also when the replay order differs, and  *)
(* no field of a trade or of the settings has changed.                     *)
C18_InputsUnchanged ==
    (pc # "idle") =>
        /\ trades = args.trades
        /\ settings = args.settings

\* the replay order of a finished invocation differs from the array order
C18_Witness ==
    /\ pc = "done"
    /\ Len(trades) >= 2
    /\ sortedTrades # trades
    /\ trades = args.trades

(* C19: a step of the preview handler of the App component, setting or     *)
(* clearing the what-if trade, leaves the committed trade list, the        *)
(* settings, the main calculation result and the issued persistence        *)
(* requests as they were and sets the scenario result to the calculation   *)
(* over the committed trades plus the preview (to null when cleared); no   *)
(* saveTrades request ever holds the preview trade.                        *)
HoldsPreview(ts) == \E j \in 1..Len(ts) : ts[j].id = "preview"

C19_PreviewTouchesScenarioOnly ==
    [][/\ Preview =>
             /\ app'.trades = app.trades
             /\ app'.settings = app.settings
             /\ app'.calculationResult = app.calculationResult
             /\ requests' = requests
             /\ app'.scenarioResult =
                  IF app'.previewTrade = <<>> THEN <<>>
                  ELSE <<calculateBuyingPower(engine, app.settings,
                             Append(app.trades, app'.previewTrade[1]))>>
       /\ \A i \in 1..Len(requests') :
             requests'[i][1] = "saveTrades" => ~HoldsPreview(requests'[i][2])]_vars

\* a preview is shown over a committed, saved trade and its scenario result
\* differs from the main result
C19_Witness ==
    /\ Len(app.trades) >= 1
    /\ app.previewTrade # <<>>
    /\ app.scenarioResult # <<>>
    /\ app.scenarioResult[1] # app.calculationResult
    /\ app.calculationResult = calculateBuyingPower(engine, app.settings, app.trades)
    /\ requests # <<>>
    /\ requests[Len(requests)] = <<"saveTrades", app.trades>>

(* C21: in the engines that keep a maintenance requirement, a step that    *)
(* processes a BUY of a non-leveraged stock whose symbol is in no override *)
(* table adds the notional times the account's maintenanceMarginPct, when  *)
(* one is configured, and times 0.25 otherwise.                            *)
ConfiguredDefault(s) ==
    IF s.maintenanceMarginPct # Zero THEN s.maintenanceMarginPct ELSE Pct(25)

PlainLongStock(t) ==
    /\ t.instrument = STOCK
    /\ t.side = BUY
    /\ toUpperCase(t.symbol) \notin DOMAIN SPECIAL_MARGIN_REQS
    /\ toUpperCase(t.symbol) \notin DOMAIN BASIC_MARGIN_REQS

C21_ConfiguredDefaultPct ==
    [][(Processing /\ engine \in {"custom", "basic"}
                   /\ PlainLongStock(sortedTrades[idx + 1])) =>
         MovedBy(sortedTrades[idx + 1], ConfiguredDefault(settings))]_vars

(* C22: in the custom-rules engine a step that processes a non-option      *)
(* trade whose symbol is not in the override table moves the requirement   *)
(* by the notional times min(0.40 * L, 1) for a SELL_SHORT of a leveraged  *)
(* ETF with factor L, times 0.40 for any other SELL_SHORT and times        *)
(* min(0.25 * L, 1) for a BUY of a leveraged ETF; no step moves the        *)
(* requirement by more than the notional of its trade.                     *)
C22_ShortAndLeveragedPct ==
    [][(Processing /\ engine = "custom") =>
         LET t == sortedTrades[idx + 1]
             L == leverageFactor(t)
         IN  /\ (~isOption(t)
                 /\ toUpperCase(t.symbol) \notin DOMAIN SPECIAL_MARGIN_REQS) =>
                   /\ (t.side = SELL_SHORT /\ isLeveragedETF(t)) =>
                         MovedBy(t, RMin(RMul(Pct(40), L), Num(1)))
                   /\ (t.side = SELL_SHORT /\ ~isLeveragedETF(t)) =>
                         MovedBy(t, Pct(40))
                   /\ (t.side = BUY /\ isLeveragedETF(t)) =>
                         MovedBy(t, RMin(RMul(Pct(25), L), Num(1)))
             /\ RLe(RAbs(RSub(st'.currentMaintenanceReq, st.currentMaintenanceReq)),
                    tradeNotional(t))]_vars

\* a short entry on a leveraged ETF with factor 5 was charged its whole
\* notional, and a plain short 40% of its notional
C22_Witness ==
    /\ engine = "custom"
    /\ idx = 2
    /\ sortedTrades[1].side = SELL_SHORT
    /\ isLeveragedETF(sortedTrades[1])
    /\ leverageFactor(sortedTrades[1]) = Num(5)
    /\ sortedTrades[2].side = SELL_SHORT
    /\ ~isLeveragedETF(sortedTrades[2])
    /\ st.currentMaintenanceReq =
          RAdd(tradeNotional(sortedTrades[1]),
               RMul(Pct(40), tradeNotional(sortedTrades[2])))
    /\ RLt(Zero, tradeNotional(sortedTrades[2]))

(* C23: in the custom-rules engine a step that processes an exit lowers    *)
(* the running maintenance requirement by no more than the requirement     *)
(* that the earlier entries on the exit's symbol added and that earlier    *)
(* exits on that symbol have not released.                                 *)
\* the requirement attributed to symbol sym after the trades of seq
RECURSIVE Attributed(_, _)
Attributed(seq, sym) ==
    IF seq = <<>> THEN Zero
    ELSE LET t == seq[Len(seq)]
             before == Attributed(SubSeq(seq, 1, Len(seq) - 1), sym)
         IN  IF toUpperCase(t.symbol) # sym THEN before
             ELSE IF isEntry(t) THEN RAdd(before, CustomTradeReq(t))
             ELSE RMax(Zero, RSub(before, CustomTradeReq(t)))

C23_ReleaseWithinAttributed ==
    [][(Processing /\ engine = "custom" /\ isExit(sortedTrades[idx + 1])) =>
         RLe(RSub(st.currentMaintenanceReq, st'.currentMaintenanceReq),
             Attributed(SubSeq(sortedTrades, 1, idx),
                        toUpperCase(sortedTrades[idx + 1].symbol)))]_vars

(* C24: in the engines of engine.ts 32-222 and part_007, after every       *)
(* processed trade the open-positions map holds for each symbol the net    *)
(* signed quantity of the trades processed so far (buys and covers count   *)
(* up, sells and shorts count down), and holds exactly the symbols whose   *)
(* net quantity has a magnitude of at least 0.0001.                        *)
EPSILON == Norm(1, 10000)

SignedQuantity(t) ==
    IF t.side = BUY \/ t.side = BUY_TO_COVER THEN t.quantity
    ELSE RSub(Zero, t.quantity)

RECURSIVE NetQuantity(_, _)
NetQuantity(seq, sym) ==
    IF seq = <<>> THEN Zero
    ELSE LET t == seq[Len(seq)]
             before == NetQuantity(SubSeq(seq, 1, Len(seq) - 1), sym)
         IN  IF toUpperCase(t.symbol) = sym
             THEN RAdd(before, SignedQuantity(t))
             ELSE before

C24_NetSignedPositions ==
    (pc # "idle" /\ engine \in {"custom", "avoid"}) =>
        \A i \in 1..Len(sortedTrades) :
            LET sym == toUpperCase(sortedTrades[i].symbol)
                net == NetQuantity(SubSeq(sortedTrades, 1, idx), sym)
            IN  /\ HasPos(st.openPositions, sym) <=> RLe(EPSILON, RAbs(net))
                /\ HasPos(st.openPositions, sym) =>
                      st.openPositions[sym].quantity = net

(* C25: in the custom-rules engine a step that processes an entry lowers   *)
(* the equity by the fees and sets the position's average price a to       *)
(* (oldQty * oldAvg + notional) / newQty; a step that processes an exit of *)
(* quantity q against an existing position changes the equity by           *)
(* (notional - a * q) - fees for a SELL and by (a * q - notional) - fees   *)
(* for a BUY_TO_COVER and leaves a as it was; an exit with no position     *)
(* lowers the equity by the fees.                                          *)
C25_EquityByFeesAndPnl ==
    [][(Processing /\ engine = "custom") =>
         LET t == sortedTrades[idx + 1]
             sym == toUpperCase(t.symbol)
             held == HasPos(st.openPositions, sym)
             oldQty == IF held THEN st.openPositions[sym].quantity ELSE Zero
             a == IF held THEN st.openPositions[sym].avgPrice ELSE Zero
             kept == HasPos(st'.openPositions, sym)
         IN  /\ isEntry(t) =>
                   /\ st'.currentEquity = RSub(st.currentEquity, t.fees)
                   /\ kept => st'.openPositions[sym].avgPrice =
                                 RDiv(RAdd(RMul(oldQty, a), tradeNotional(t)),
                                      RAdd(oldQty, t.quantity))
             /\ (isExit(t) /\ held) =>
                   /\ t.side = SELL =>
                         st'.currentEquity =
                            RSub(RAdd(st.currentEquity,
                                      RSub(tradeNotional(t), RMul(a, t.quantity))),
                                 t.fees)
                   /\ t.side = BUY_TO_COVER =>
                         st'.currentEquity =
                            RSub(RAdd(st.currentEquity,
                                      RSub(RMul(a, t.quantity), tradeNotional(t))),
                                 t.fees)
                   /\ kept => st'.openPositions[sym].avgPrice = a
             /\ (isExit(t) /\ ~held) =>
                   st'.currentEquity = RSub(st.currentEquity, t.fees)]_vars

\* two buys of 50 at 40 and at 60 were sold at 60: the average is 50 and
\* the profit 1000, with fees of 1 on the second buy and on the sale
C25_Witness ==
    /\ engine = "custom"
    /\ idx = 3
    /\ sortedTrades[1].side = BUY
    /\ sortedTrades[2].side = BUY
    /\ sortedTrades[3].side = SELL
    /\ sortedTrades[1].price # sortedTrades[2].price
    /\ \A i \in 1..3 : sortedTrades[i].symbol = "XYZ"
    /\ sortedTrades[3].quantity = Num(100)
    /\ st.currentEquity = Num(30998)

(* C26: in the custom-rules engine, when an entry is followed at once by   *)
(* its matching exit (BUY then SELL, SELL_SHORT then BUY_TO_COVER: same    *)
(* symbol, instrument, quantity, price and leverage factor), the running   *)
(* maintenance requirement after the exit is what it was before the entry. *)
Matching(entry, exit) ==
    /\ \/ entry.side = BUY /\ exit.side = SELL
       \/ entry.side = SELL_SHORT /\ exit.side = BUY_TO_COVER
    /\ exit.symbol = entry.symbol
    /\ exit.instrument = entry.instrument
    /\ exit.quantity = entry.quantity
    /\ exit.price = entry.price
    /\ exit.leverageFactor = entry.leverageFactor

\* the running requirement after the first i trades of the replay
CustomReqAfter(i) == CustomAfter(i).currentMaintenanceReq

C26_RoundTripSymmetry ==
    (engine = "custom" /\ pc = "loop" /\ idx >= 2
        /\ Matching(sortedTrades[idx - 1], sortedTrades[idx])) =>
        st.currentMaintenanceReq = CustomReqAfter(idx - 2)

(* C27: in the custom-rules engine a step that processes an exit adds to   *)
(* the equity a profit or loss computed on no more than the quantity held  *)
(* for the exit's symbol: (price - a) per unit for a SELL, (a - price) per *)
(* unit for a BUY_TO_COVER, on min(q, held) units, less the fees; an exit  *)
(* with no position lowers the equity by the fees only.                    *)
C27_PnlOnHeldQuantity ==
    [][(Processing /\ engine = "custom" /\ isExit(sortedTrades[idx + 1])) =>
         LET t == sortedTrades[idx + 1]
             sym == toUpperCase(t.symbol)
             held == IF HasPos(st.openPositions, sym)
                     THEN st.openPositions[sym].quantity ELSE Zero
             a == IF HasPos(st.openPositions, sym)
                  THEN st.openPositions[sym].avgPrice ELSE Zero
             closed == RMin(t.quantity, held)
             perUnit == IF t.side = SELL
                        THEN RSub(RMul(t.price, multiplier(t)), a)
                        ELSE RSub(a, RMul(t.price, multiplier(t)))
         IN  st'.currentEquity =
                RSub(RAdd(st.currentEquity, RMul(perUnit, closed)), t.fees)]_vars

(* C28: for an empty trade log the engines that keep a maintenance         *)
(* requirement return optionBP = max(0, startOfDayEquity -                 *)
(* startOfDayMaintReq) and a stockBP of at most four times that excess.    *)
C28_EmptyLogStartExcess ==
    (pc = "done" /\ trades = <<>> /\ engine \in {"custom", "basic"}) =>
        /\ result.optionBP = maintenanceExcessStart(settings)
        /\ RLe(result.stockBP, RMul(Num(4), maintenanceExcessStart(settings)))

(* C29: in the custom-rules engine, once dtbpUsed is above the cap after a *)
(* trade of the replay, every later trade of the replay, entry or exit,    *)
(* has its own DTBP-violation warning in the result, and the result has    *)
(* stockBP = 0 and the stock-buying-power-depleted warning.                *)
ViolatedAfter(i) ==
    RLt(result.dtbpStartOfDay, CustomAfter(i).dtbpUsed)

C29_ViolationPermanent ==
    (pc = "done" /\ engine = "custom") =>
        \A i \in 1..Len(sortedTrades) :
            ViolatedAfter(i) =>
                /\ \A j \in i..Len(sortedTrades) :
                      Contains(result.warnings, DtbpViolation(sortedTrades[j]))
                /\ result.stockBP = Zero
                /\ Contains(result.warnings, STOCK_BP_DEPLETED)

\* the cap was exceeded by an entry and an exit with a cost came after it
C29_Witness ==
    /\ pc = "done"
    /\ engine = "custom"
    /\ Len(sortedTrades) = 2
    /\ ViolatedAfter(1)
    /\ isExit(sortedTrades[2])
    /\ RLt(RSub(CustomAfter(1).dtbpUsed, result.dtbpStartOfDay),
           totalCost(sortedTrades[2]))
    /\ Contains(result.warnings, DtbpViolation(sortedTrades[2]))
    /\ result.stockBP = Zero

\* C30: deletion is durable under any interleaving of the persistence calls:
\* once every request in flight has been served, the remote store holds no
\* row whose deletion the user has requested.
Deleted ==
    { requests[i][2] : i \in { j \in 1..Len(requests) :
                                 requests[j][1] = "deleteTrade" } }

C30_DeletionDurable ==
    (profile = "app" /\ inflight = {})
        => \A r \in remote : r.id \notin Deleted

====
